---- MODULE Spec2Model ----
(***************************************************************************)
(* A model of the Vercel deployments tray indicator: the configuration     *)
(* file (config.py), the API client (api.py) and the refresh and           *)
(* notification loop of VercelIndicator (indicator.py).                    *)
(***************************************************************************)
EXTENDS Integers, Sequences, FiniteSets, TLC

VARIABLES
    configFile,              \* the content of config.json on disk
    loaded,                  \* the value returned by the last load_config()
    raw,                     \* a raw deployment item handed to _parse_deployment
    parsed,                  \* the Deployment returned for it
    refresh_interval,        \* self.refresh_interval
    max_items,               \* self.max_items
    client,                  \* self.client: [token, team_id]
    notify_prod_events,      \* self.notify_prod_events
    _refresh_timer_id,       \* self._refresh_timer_id (NoTimer for None)
    timers,                  \* GLib's armed repeating timeouts: [id, interval]
    next_source_id,          \* the id GLib gives to the next source
    _refresh_in_progress,    \* self._refresh_in_progress
    _last_overall_status,    \* self._last_overall_status ("none" for None)
    _prod_seen,              \* self._prod_seen: id -> status
    _prod_seen_bootstrapped, \* self._prod_seen_bootstrapped
    threads,                 \* the worker threads that have not ended
    idle_queue,              \* GLib's pending idle callbacks to _apply_update
    poll_count,              \* the number of workers started so far
    calls,                   \* the list_deployments call of the last worker step
    notes,                   \* the notifications shown by the last step
    applied,                 \* the poll the last _apply_update was given
    first_success            \* the first poll whose fetch returned (0: none yet)

vars == << configFile, loaded, raw, parsed, refresh_interval, max_items, client,
           notify_prod_events, _refresh_timer_id, timers, next_source_id,
           _refresh_in_progress, _last_overall_status, _prod_seen,
           _prod_seen_bootstrapped, threads, idle_queue, poll_count, calls,
           notes, applied, first_success >>

appVars == << refresh_interval, max_items, client, notify_prod_events,
              _refresh_timer_id, timers, next_source_id, _refresh_in_progress,
              _last_overall_status, _prod_seen, _prod_seen_bootstrapped, threads,
              idle_queue, poll_count, calls, notes, applied, first_success >>

(***************************************************************************)
(* JSON values and Python truthiness                                       *)
(***************************************************************************)
JNull == [null |-> TRUE]
JStr(s) == [str |-> s]
JInt(n) == [int |-> n]
JBool(b) == [bool |-> b]

\* Python's truth value of a JSON value, as `x or default` tests it.
Truthy(v) ==
    CASE DOMAIN v = {"null"} -> FALSE
      [] DOMAIN v = {"str"} -> v.str # ""
      [] DOMAIN v = {"int"} -> v.int # 0
      [] DOMAIN v = {"bool"} -> v.bool

\* str.strip() on the strings the model uses.
Strip(s) ==
    CASE s = " " -> ""
      [] s = " tokA " -> "tokA"
      [] s = " tokB " -> "tokB"
      [] OTHER -> s

\* str.lower() on the strings the model uses.
Lower(s) ==
    CASE s \in {"READY", "Ready"} -> "ready"
      [] s \in {"BUILDING", "Building"} -> "building"
      [] s = "QUEUED" -> "queued"
      [] s = "INITIALIZING" -> "initializing"
      [] s \in {"ERROR", "Error"} -> "error"
      [] s = "FAILED" -> "failed"
      [] s = "CANCELED" -> "canceled"
      [] s = "CANCELLED" -> "cancelled"
      [] s = "DEPLOYING" -> "deploying"
      [] s \in {"PRODUCTION", "Production"} -> "production"
      [] s = "Preview" -> "preview"
      [] OTHER -> s

(***************************************************************************)
(* config.py                                                               *)
(***************************************************************************)
ConfigKeys == {"token", "team_id", "refresh_interval", "max_items", "notify_prod_events"}

\* asdict(AppConfig())
AppConfig ==
    [token |-> JStr(""), team_id |-> JStr(""), refresh_interval |-> JInt(30),
     max_items |-> JInt(10), notify_prod_events |-> JBool(TRUE)]

FileAbsent == [kind |-> "absent"]
FileCorrupt == [kind |-> "corrupt"]       \* not UTF-8 or not JSON
FileArray == [kind |-> "array"]           \* valid JSON that is not an object
FileObject(d) == [kind |-> "object", data |-> d]

\* data.setdefault(k, v) for every default: the stored value wins.
SetDefaultsKeepDefault(data, defaults) ==
    [k \in DOMAIN data \cup DOMAIN defaults |->
        IF k \in DOMAIN defaults THEN defaults[k] ELSE data[k]]

SetDefaults(data, defaults) ==
    [k \in DOMAIN data \cup DOMAIN defaults |->
        IF k \in DOMAIN data THEN data[k] ELSE defaults[k]]

load_config(file) ==
    CASE file.kind = "absent" -> AppConfig
      [] file.kind = "object" -> SetDefaults(file.data, AppConfig)
      [] OTHER -> AppConfig   \* json.loads or setdefault raised

\* dict.get(k): None when the key is missing.
Get(d, k) == IF k \in DOMAIN d THEN d[k] ELSE JNull

\* `x or default` followed by int(...) / str(...)
OrInt(v, default) == IF Truthy(v) THEN v.int ELSE default
OrStr(v) == IF Truthy(v) THEN v.str ELSE ""

save_config(data) ==
    FileObject(
        [token |-> JStr(OrStr(Get(data, "token"))),
         team_id |-> JStr(OrStr(Get(data, "team_id"))),
         refresh_interval |-> JInt(OrInt(Get(data, "refresh_interval"), 30)),
         max_items |-> JInt(OrInt(Get(data, "max_items"), 10)),
         notify_prod_events |->
            IF Get(data, "notify_prod_events") # JNull
            THEN JBool(Truthy(Get(data, "notify_prod_events")))
            ELSE JBool(TRUE)])

(***************************************************************************)
(* api.py: Deployment and _parse_deployment                                *)
(***************************************************************************)
None == "<None>"

StatusKeepQueued(ready_state) ==
    CASE ready_state = "ready" -> "ready"
      [] ready_state \in {"building", "initializing"} -> "building"
      [] ready_state = "queued" -> "queued"
      [] ready_state \in {"error", "failed"} -> "error"
      [] ready_state \in {"canceled", "cancelled"} -> "canceled"
      [] OTHER -> "unknown"

\* status_map.get(ready_state, "unknown")
status_map(ready_state) ==
    CASE ready_state = "ready" -> "ready"
      [] ready_state \in {"building", "queued", "initializing"} -> "building"
      [] ready_state \in {"error", "failed", "canceled", "cancelled"} -> "error"
      [] OTHER -> "unknown"

\* `a or b or ""` over optional strings
OrElse(a, b) == IF a # None /\ a # "" THEN a ELSE IF b # None /\ b # "" THEN b ELSE ""

\* createdAt is fixed per deployment upstream; newer deployments have larger ones.
CreatedAtOf(id) ==
    CASE id = "d1" -> 1000
      [] id = "d2" -> 2000
      [] OTHER -> 3000

Now == 9000   \* _dt.datetime.now(): later than every createdAt

\* One raw item of the API's answer; absent keys are None.
RawItem(id, readyState, target) ==
    [id |-> id, uid |-> None, readyState |-> readyState, state |-> None,
     createdAt |-> CreatedAtOf(id), target |-> target, environment |-> None]

_parse_deployment(item) ==
    [id |-> OrElse(item.id, item.uid),
     status |-> status_map(Lower(OrElse(item.readyState, item.state))),
     created_at |-> IF item.createdAt = 0 THEN Now ELSE item.createdAt,
     target |-> OrElse(item.target, item.environment)]

(***************************************************************************)
(* api.py: VercelClient.list_deployments                                   *)
(***************************************************************************)
base_url_candidates == << "v13", "v6" >>

\* What one endpoint answers to the GET:
\*   "object"  200, a JSON object with the key "deployments" (items, maybe none)
\*   "list"    200, a non-empty JSON list (the legacy shape the code expects of v6)
\*   "empty"   200, an empty body value ({} or [] or null)
\*   "401", "http_error" (any other 4xx/5xx), "network_error" (get() raised)
RespObject(items) == [kind |-> "object", items |-> items]
RespOf(kind) == [kind |-> kind, items |-> << >>]

Min(a, b) == IF a < b THEN a ELSE b

\* list.sort(key=created_at, reverse=True): stable, newest first.
RECURSIVE InsertDesc(_, _)
InsertDesc(sorted, d) ==
    IF sorted = << >> THEN << d >>
    ELSE IF Head(sorted).created_at >= d.created_at
         THEN << Head(sorted) >> \o InsertDesc(Tail(sorted), d)
         ELSE << d >> \o sorted

RECURSIVE SortDesc(_)
SortDesc(seq) ==
    IF seq = << >> THEN << >>
    ELSE InsertDesc(SortDesc(SubSeq(seq, 1, Len(seq) - 1)), seq[Len(seq)])

\* parsed[: limit] for limit >= 0
Take(seq, n) == SubSeq(seq, 1, Min(n, Len(seq)))

ParseAll(items) == [i \in 1..Len(items) |-> _parse_deployment(items[i])]

\* The body of the try block for one candidate: its return value or the
\* exception it raises.
Attempt(resp, limit) ==
    CASE resp.kind = "network_error" -> [ok |-> FALSE, exc |-> "ConnectionError", value |-> << >>]
      [] resp.kind = "401" -> [ok |-> FALSE, exc |-> "PermissionError", value |-> << >>]
      [] resp.kind = "http_error" -> [ok |-> FALSE, exc |-> "HTTPError", value |-> << >>]
      [] resp.kind = "empty" -> [ok |-> TRUE, exc |-> None, value |-> << >>]
         \* a list has no .get
      [] resp.kind = "list" -> [ok |-> FALSE, exc |-> "AttributeError", value |-> << >>]
         \* `data.get("deployments") or data` is the dict itself when the list is
         \* empty; parsing its keys raises
      [] resp.kind = "object" /\ resp.items = << >> ->
            [ok |-> FALSE, exc |-> "AttributeError", value |-> << >>]
      [] resp.kind = "object" /\ resp.items # << >> ->
            [ok |-> TRUE, exc |-> None,
             value |-> Take(SortDesc(ParseAll(resp.items)), limit)]

\* What a request got: the kind of the endpoint's answer and how the try block
\* ended on it ("ok" or the exception).
Answer(resp, result) == [kind |-> resp.kind, result |-> result]

\* The mutant loop: a failed candidate is requested a second time before the next.
RECURSIVE TryCandidatesRetry(_, _, _, _, _, _)
TryCandidatesRetry(net, limit, i, requests, answers, last_error) ==
    IF i > Len(base_url_candidates)
    THEN [requests |-> requests, answers |-> answers,
          outcome |-> IF last_error # None THEN "raise" ELSE "return",
          exc |-> last_error, value |-> << >>]
    ELSE LET base == base_url_candidates[i]
             a == Attempt(net[base], limit)
         IN IF a.ok
            THEN [requests |-> Append(requests, base),
                  answers |-> Append(answers, Answer(net[base], "ok")),
                  outcome |-> "return", exc |-> None, value |-> a.value]
            ELSE TryCandidatesRetry(net, limit, i + 1,
                                    requests \o << base, base >>,
                                    answers \o << Answer(net[base], a.exc), Answer(net[base], a.exc) >>,
                                    a.exc)

\* for base in self.base_url_candidates: ...; then `if last_error: raise`
RECURSIVE TryCandidates(_, _, _, _, _, _)
TryCandidates(net, limit, i, requests, answers, last_error) ==
    IF i > Len(base_url_candidates)
    THEN [requests |-> requests, answers |-> answers,
          outcome |-> IF last_error # None THEN "raise" ELSE "return",
          exc |-> last_error, value |-> << >>]
    ELSE LET base == base_url_candidates[i]
             a == Attempt(net[base], limit)
         IN IF a.ok
            THEN [requests |-> Append(requests, base),
                  answers |-> Append(answers, Answer(net[base], "ok")),
                  outcome |-> "return", exc |-> None, value |-> a.value]
            ELSE TryCandidates(net, limit, i + 1, Append(requests, base),
                               Append(answers, Answer(net[base], a.exc)), a.exc)

list_deployments_retry(net, limit) == TryCandidatesRetry(net, limit, 1, << >>, << >>, None)

list_deployments(net, limit) == TryCandidates(net, limit, 1, << >>, << >>, None)

NoCall == [requests |-> << >>, answers |-> << >>, outcome |-> "none", exc |-> None]

(***************************************************************************)
(* indicator.py: VercelIndicator                                           *)
(***************************************************************************)
NoTimer == 0
NoClient == [token |-> None, team_id |-> None]

\* VercelClient(token, team_id or None): both stripped, an empty team is None.
VercelClient(token, team_id) ==
    [token |-> Strip(token),
     team_id |-> IF Strip(team_id) = "" THEN None ELSE Strip(team_id)]

\* What _reconfigure() sets from the configuration file.
_reconfigure(file) ==
    LET cfg == load_config(file)
        val == Get(cfg, "notify_prod_events")
    IN [refresh_interval |-> OrInt(Get(cfg, "refresh_interval"), 30),
        max_items |-> OrInt(Get(cfg, "max_items"), 10),
        client |-> VercelClient(OrStr(Get(cfg, "token")), OrStr(Get(cfg, "team_id"))),
        notify_prod_events |-> IF val = JNull THEN TRUE ELSE Truthy(val)]

\* The fields the scheduling methods read and write.
Sched ==
    [timer_id |-> _refresh_timer_id, timers |-> timers, next_id |-> next_source_id,
     in_progress |-> _refresh_in_progress, threads |-> threads,
     poll_count |-> poll_count]

SetSched(s) ==
    /\ _refresh_timer_id' = s.timer_id
    /\ timers' = s.timers
    /\ next_source_id' = s.next_id
    /\ _refresh_in_progress' = s.in_progress
    /\ threads' = s.threads
    /\ poll_count' = s.poll_count

NewThread(n) == [poll |-> n, pc |-> "spawned", client |-> NoClient, limit |-> 0]

_spawn_refresh_thread(s) ==
    IF s.in_progress THEN s
    ELSE [s EXCEPT !.in_progress = TRUE,
                   !.threads = @ \cup {NewThread(s.poll_count + 1)},
                   !.poll_count = @ + 1]

\* GLib.timeout_add_seconds: a new repeating source with the next id.
TimeoutAdd(s, interval) ==
    [s EXCEPT !.timer_id = s.next_id,
              !.timers = @ \cup {[id |-> s.next_id, interval |-> interval]},
              !.next_id = @ + 1]

\* The mutant: the previous timer is forgotten, not removed.
ScheduleNoCancel(s, interval, immediate) ==
    TimeoutAdd(IF immediate THEN _spawn_refresh_thread(s) ELSE s, interval)

_schedule_refresh(s, interval, immediate) ==
    LET s1 == IF s.timer_id # NoTimer
              THEN [s EXCEPT !.timers = {t \in @ : t.id # s.timer_id},
                             !.timer_id = NoTimer]
              ELSE s
        s2 == IF immediate THEN _spawn_refresh_thread(s1) ELSE s1
    IN TimeoutAdd(s2, interval)

_overall_status(deployments) ==
    IF \E i \in DOMAIN deployments : deployments[i].status = "building" THEN "building"
    ELSE IF \E i \in DOMAIN deployments : deployments[i].status = "error" THEN "error"
    ELSE "ready"

\* dict.get and dict[k] = v on _prod_seen
SeenGet(seen, id) == IF id \in DOMAIN seen THEN seen[id] ELSE None
SeenPut(seen, id, status) ==
    [k \in DOMAIN seen \cup {id} |-> IF k = id THEN status ELSE seen[k]]

IsProduction(d) == Lower(d.target) = "production"

\* for d in production: self._prod_seen[d.id] = d.status
RECURSIVE RecordAll(_, _, _)
RecordAll(seen, deployments, i) ==
    IF i > Len(deployments) THEN seen
    ELSE RecordAll(IF IsProduction(deployments[i])
                   THEN SeenPut(seen, deployments[i].id, deployments[i].status)
                   ELSE seen,
                   deployments, i + 1)

\* for d in production: notify and record when new or changed.  `sent` lists
\* the positions (in deployments) a notification was sent for, in order.
RECURSIVE NotifyLoop(_, _, _, _)
NotifyLoop(seen, deployments, i, sent) ==
    IF i > Len(deployments) THEN [seen |-> seen, sent |-> sent]
    ELSE LET d == deployments[i]
             previous == SeenGet(seen, d.id)
         IN IF IsProduction(d) /\ (previous = None \/ previous # d.status)
            THEN NotifyLoop(SeenPut(seen, d.id, d.status), deployments, i + 1,
                            Append(sent, i))
            ELSE NotifyLoop(seen, deployments, i + 1, sent)

\* The mutant: the bootstrap poll notifies like any other.
NotifyNoBootstrap(seen, bootstrapped, deployments) ==
    LET r == NotifyLoop(seen, deployments, 1, << >>)
    IN [seen |-> r.seen, bootstrapped |-> TRUE, sent |-> r.sent]

_notify_production_events(seen, bootstrapped, deployments) ==
    IF ~bootstrapped
    THEN [seen |-> RecordAll(seen, deployments, 1), bootstrapped |-> TRUE, sent |-> << >>]
    ELSE LET r == NotifyLoop(seen, deployments, 1, << >>)
         IN [seen |-> r.seen, bootstrapped |-> TRUE, sent |-> r.sent]

FetchFailedNote(poll) == [kind |-> "fetch_failed", poll |-> poll]
OverallNote(poll, status) == [kind |-> "overall", poll |-> poll, status |-> status]
ProdNote(poll, i, d) ==
    [kind |-> "prod", poll |-> poll, idx |-> i, id |-> d.id, status |-> d.status]

(***************************************************************************)
(* Bounds and the environment's inputs                                     *)
(***************************************************************************)
MaxPolls == 3        \* workers started in one run
MaxSourceId == 3     \* timeouts armed in one run
MaxResp == 2         \* items in one answer of the API

Candidates == {"v13", "v6"}
Seqs(S, n) == UNION {[1..k -> S] : k \in 0..n}

FailureKinds == {"401", "http_error", "network_error", "list", "empty"}

Responses(items) ==
    {RespObject(q) : q \in Seqs(items, MaxResp)} \cup {RespOf(k) : k \in FailureKinds}

\* The answers of the two endpoints to one call, each any of R.  Once v13 has
\* answered with a result v6 is never asked, so its answer is not enumerated.
Nets(R) ==
    {n \in [Candidates -> R] : Attempt(n["v13"], 1).ok => n["v6"] = n["v13"]}

\* The two endpoints serve the same data: both give the answer r.
SameAnswer(r) == [c \in Candidates |-> r]

\* The values of max_items: the dialog's and the default.
Limits == {1, 2, 10}

\* What list_deployments(limit) can give when the endpoints answer as in nets.
Outcomes(nets) == [l \in Limits |-> {list_deployments(net, l) : net \in nets}]

\* What the preferences dialog hands to save_config: the entries are stripped,
\* the spin buttons range over 5..300 and 1..50.
Dialog(token, team, interval, maxi, notify) ==
    [token |-> JStr(Strip(token)), team_id |-> JStr(Strip(team)),
     refresh_interval |-> JInt(interval), max_items |-> JInt(maxi),
     notify_prod_events |-> JBool(notify)]

EmptyDict == [k \in {} |-> None]
NoApplied == [poll |-> 0, overall |-> "none"]

(***************************************************************************)
(* The state after VercelIndicator.__init__ with `file` on disk            *)
(***************************************************************************)
AppAfterInit(file) ==
    LET r == _reconfigure(file)
        s0 == [timer_id |-> NoTimer, timers |-> {}, next_id |-> 1,
               in_progress |-> FALSE, threads |-> {}, poll_count |-> 0]
        cfg == load_config(file)
        s == IF Strip(OrStr(Get(cfg, "token"))) = "" THEN s0
             ELSE _schedule_refresh(s0, r.refresh_interval, TRUE)
    IN /\ refresh_interval = r.refresh_interval
       /\ max_items = r.max_items
       /\ client = r.client
       /\ notify_prod_events = r.notify_prod_events
       /\ _refresh_timer_id = s.timer_id
       /\ timers = s.timers
       /\ next_source_id = s.next_id
       /\ _refresh_in_progress = s.in_progress
       /\ threads = s.threads
       /\ poll_count = s.poll_count
       /\ _last_overall_status = "none"
       /\ _prod_seen = EmptyDict
       /\ _prod_seen_bootstrapped = FALSE
       /\ idle_queue = << >>
       /\ calls = NoCall
       /\ notes = << >>
       /\ applied = NoApplied
       /\ first_success = 0

pureVars == << loaded, raw, parsed >>
cfgVars == << refresh_interval, max_items, client, notify_prod_events >>
notifyVars == << _last_overall_status, _prod_seen, _prod_seen_bootstrapped, applied,
                first_success >>

\* A step may start a worker only while the run's bound on polls allows one.
CanSpawn == _refresh_in_progress \/ poll_count < MaxPolls

(***************************************************************************)
(* Handlers on the main loop                                               *)
(***************************************************************************)
\* _refresh_timeout_cb: the armed timeout fires; returning True keeps it armed.
TimerTick ==
    /\ timers # {}
    /\ CanSpawn
    /\ SetSched(_spawn_refresh_thread(Sched))
    /\ calls' = NoCall
    /\ notes' = << >>
    /\ UNCHANGED << configFile, pureVars, cfgVars, notifyVars, idle_queue >>

\* _manual_refresh: "Refresh now"
ManualRefresh ==
    /\ CanSpawn
    /\ next_source_id <= MaxSourceId
    /\ SetSched(_schedule_refresh(Sched, refresh_interval, TRUE))
    /\ calls' = NoCall
    /\ notes' = << >>
    /\ UNCHANGED << configFile, pureVars, cfgVars, notifyVars, idle_queue >>

\* PreferencesDialog._on_response(OK): save_config, then _on_prefs_saved
PrefsSaved(data) ==
    /\ CanSpawn
    /\ next_source_id <= MaxSourceId
    /\ configFile' = save_config(data)
    /\ LET r == _reconfigure(configFile')
       IN /\ refresh_interval' = r.refresh_interval
          /\ max_items' = r.max_items
          /\ client' = r.client
          /\ notify_prod_events' = r.notify_prod_events
          /\ SetSched(_schedule_refresh(Sched, r.refresh_interval, TRUE))
    /\ calls' = NoCall
    /\ notes' = << >>
    /\ UNCHANGED << pureVars, notifyVars, idle_queue >>

\* _apply_update(deployments), run by the main loop from the idle queue.
\* show_ok: whether Notify's show() returns; when it raises, the callback ends
\* there.
ApplyUpdate(show_ok) ==
    /\ idle_queue # << >>
    /\ LET job == Head(idle_queue)
           deployments == job.deployments
           overall == IF deployments # << >> THEN _overall_status(deployments) ELSE "error"
           changed == overall # _last_overall_status /\ _last_overall_status # "none"
           p == _notify_production_events(_prod_seen, _prod_seen_bootstrapped, deployments)
       IN /\ idle_queue' = Tail(idle_queue)
          /\ _refresh_in_progress' = FALSE
          /\ show_ok \in (IF changed THEN BOOLEAN ELSE {TRUE})
          /\ applied' = [poll |-> job.poll, overall |-> overall]
          /\ IF changed /\ ~show_ok
             THEN /\ notes' = << >>
                  /\ UNCHANGED << _last_overall_status, _prod_seen, _prod_seen_bootstrapped >>
             ELSE /\ _last_overall_status' = overall
                  /\ IF notify_prod_events
                     THEN /\ _prod_seen' = p.seen
                          /\ _prod_seen_bootstrapped' = p.bootstrapped
                          /\ notes' =
                               (IF changed THEN << OverallNote(job.poll, overall) >> ELSE << >>)
                               \o [k \in 1..Len(p.sent) |->
                                     ProdNote(job.poll, p.sent[k], deployments[p.sent[k]])]
                     ELSE /\ UNCHANGED << _prod_seen, _prod_seen_bootstrapped >>
                          /\ notes' =
                               (IF changed THEN << OverallNote(job.poll, overall) >> ELSE << >>)
    /\ calls' = NoCall
    /\ UNCHANGED << configFile, pureVars, cfgVars, _refresh_timer_id, timers,
                    next_source_id, threads, poll_count, first_success >>

(***************************************************************************)
(* The worker thread                                                       *)
(***************************************************************************)
\* The thread starts running: it reads self.client and self.max_items.
WorkerStart(t) ==
    /\ t \in threads
    /\ t.pc = "spawned"
    /\ threads' = (threads \ {t}) \cup
                  {[t EXCEPT !.pc = "fetching", !.client = client, !.limit = max_items]}
    /\ calls' = NoCall
    /\ notes' = << >>
    /\ UNCHANGED << configFile, pureVars, cfgVars, notifyVars, _refresh_timer_id,
                    timers, next_source_id, _refresh_in_progress, idle_queue,
                    poll_count >>

\* list_deployments returns or raises with r, one of the results the endpoints'
\* answers can give it; the thread hands the result to the main loop and ends.
\* show_ok: whether Notify's show() returns in the except branch; when it
\* raises, the thread ends with that exception.
WorkerFetch(t, r, show_ok) ==
    /\ t \in threads
    /\ t.pc = "fetching"
    /\ calls' = [requests |-> r.requests, answers |-> r.answers,
                 outcome |-> r.outcome, exc |-> r.exc]
    /\ show_ok \in (IF r.outcome = "raise" THEN BOOLEAN ELSE {TRUE})
    /\ notes' = IF r.outcome = "raise" /\ show_ok
                THEN << FetchFailedNote(t.poll) >> ELSE << >>
    /\ idle_queue' = IF show_ok
                     THEN Append(idle_queue, [poll |-> t.poll, deployments |-> r.value])
                     ELSE idle_queue
    /\ first_success' = IF r.outcome = "return" /\ first_success = 0
                        THEN t.poll ELSE first_success
    /\ threads' = threads \ {t}
    /\ UNCHANGED << configFile, pureVars, cfgVars, _last_overall_status, _prod_seen,
                    _prod_seen_bootstrapped, applied, _refresh_timer_id, timers,
                    next_source_id, _refresh_in_progress, poll_count >>

(***************************************************************************)
(* The pure functions: load_config and _parse_deployment on bounded inputs *)
(***************************************************************************)
NotLoaded == [not_loaded |-> JNull]
NotParsed == [id |-> None, status |-> None, created_at |-> 0, target |-> None]

\* The values a key of config.json holds in the files the model reads.
FileValues(k) ==
    CASE k = "token" -> {JNull, JStr(""), JStr("tokA")}
      [] k = "team_id" -> {JStr("team")}
      [] k = "refresh_interval" -> {JInt(0), JInt(5)}
      [] k = "max_items" -> {JInt(2)}
      [] k = "notify_prod_events" -> {JNull, JBool(FALSE)}

\* A JSON object holding any subset of the keys.
FileObjects ==
    UNION {{d \in [K -> UNION {FileValues(k) : k \in K}] :
                \A k \in K : d[k] \in FileValues(k)} : K \in SUBSET ConfigKeys}

ConfigFiles == {FileAbsent, FileCorrupt, FileArray} \cup {FileObject(d) : d \in FileObjects}

RawStates ==
    {None, "", "READY", "Ready", "ready", "BUILDING", "building", "QUEUED", "queued",
     "INITIALIZING", "initializing", "ERROR", "error", "FAILED", "failed",
     "CANCELED", "canceled", "CANCELLED", "cancelled", "DEPLOYING", "deploying",
     "weird"}

ParseInputs ==
    {[id |-> "d1", uid |-> None, readyState |-> rs, state |-> st, createdAt |-> c,
      target |-> tg, environment |-> None] :
        rs \in RawStates, st \in RawStates, c \in {0, 1000}, tg \in {None, "Production"}}

LoadConfig ==
    /\ loaded' = load_config(configFile)
    /\ UNCHANGED << configFile, raw, parsed, appVars >>

Parse ==
    /\ parsed' = _parse_deployment(raw)
    /\ UNCHANGED << configFile, loaded, raw, appVars >>

InitConfig ==
    /\ configFile \in ConfigFiles
    /\ loaded = NotLoaded
    /\ raw = RawItem("d1", "READY", "production")
    /\ parsed = NotParsed
    /\ AppAfterInit(FileAbsent)

InitParse ==
    /\ configFile = FileAbsent
    /\ loaded = NotLoaded
    /\ raw \in ParseInputs
    /\ parsed = NotParsed
    /\ AppAfterInit(FileAbsent)

SpecConfig == InitConfig /\ [][LoadConfig]_vars
SpecParse == InitParse /\ [][Parse]_vars

(***************************************************************************)
(* The application                                                         *)
(***************************************************************************)
\* The scheduling specification: every way of starting a poll, every saved
\* configuration, every kind of answer; the answers carry one deployment.
SchedItems == {RawItem("d1", "READY", "production")}

Dialogs ==
    {Dialog(tok, "", i, m, n) : tok \in {"tokA", " tokB "}, i \in {5, 10}, m \in {1, 2},
                                n \in {TRUE}}

InitFiles ==
    {FileAbsent,
     FileCorrupt,
     FileObject([token |-> JStr(" ")]),
     FileObject([token |-> JStr("tokA"), max_items |-> JInt(2)]),
     FileObject([token |-> JStr("tokA"), refresh_interval |-> JInt(5),
                 notify_prod_events |-> JBool(FALSE)])}

SchedNets == Nets(Responses(SchedItems))
SchedOutcomes == Outcomes(SchedNets)

Init ==
    /\ configFile \in InitFiles
    /\ loaded = NotLoaded
    /\ raw = RawItem("d1", "READY", "production")
    /\ parsed = NotParsed
    /\ AppAfterInit(configFile)

Next ==
    \/ TimerTick
    \/ ManualRefresh
    \/ \E data \in Dialogs : PrefsSaved(data)
    \/ \E ok \in BOOLEAN : ApplyUpdate(ok)
    \/ \E t \in threads : WorkerStart(t)
    \/ \E t \in {u \in threads : u.pc = "fetching"}, ok \in BOOLEAN :
          \E r \in SchedOutcomes[t.limit] : WorkerFetch(t, r, ok)

Spec == Init /\ [][Next]_vars

\* The scheduling the code relies on: a started thread runs, a request ends
\* (every request carries timeout=self.timeout_s), and the main loop runs the
\* callbacks queued with GLib.idle_add.
Fairness ==
    /\ WF_vars(\E t \in threads : WorkerStart(t))
    /\ WF_vars(\E t \in {u \in threads : u.pc = "fetching"}, ok \in BOOLEAN :
                  \E r \in SchedOutcomes[t.limit] : WorkerFetch(t, r, ok))
    /\ WF_vars(\E ok \in BOOLEAN : ApplyUpdate(ok))

SpecFair == Init /\ [][Next]_vars /\ Fairness

\* The notification specification: a configured indicator polling on its timer,
\* the user switching production notifications on and off, and answers that
\* carry up to MaxResp deployments of every status and target.
PollItems ==
    {RawItem(id, rs, tg) : id \in {"d1", "d2"}, rs \in {"READY", "BUILDING", "ERROR"},
                           tg \in {"Production", "preview"}}

\* A deployment appears once in an answer.
DistinctIds(q) == \A i, j \in DOMAIN q : i # j => q[i].id # q[j].id

NotifyNets ==
    {SameAnswer(r) : r \in {RespObject(q) : q \in {x \in Seqs(PollItems, MaxResp) : DistinctIds(x)}}
                           \cup {RespOf("http_error"), RespOf("empty")}}

NotifyOutcomes == Outcomes(NotifyNets)

NotifyDialogs == {Dialog("tokA", "", 5, 2, n) : n \in BOOLEAN}

InitNotify ==
    /\ configFile \in {FileObject([token |-> JStr("tokA"), max_items |-> JInt(2)]),
                       FileObject([token |-> JStr("tokA"), max_items |-> JInt(2),
                                   notify_prod_events |-> JBool(FALSE)])}
    /\ loaded = NotLoaded
    /\ raw = RawItem("d1", "READY", "production")
    /\ parsed = NotParsed
    /\ AppAfterInit(configFile)

NextNotify ==
    \/ TimerTick
    \/ \E data \in NotifyDialogs : PrefsSaved(data)
    \/ \E ok \in BOOLEAN : ApplyUpdate(ok)
    \/ \E t \in threads : WorkerStart(t)
    \/ \E t \in {u \in threads : u.pc = "fetching"}, ok \in BOOLEAN :
          \E r \in NotifyOutcomes[t.limit] : WorkerFetch(t, r, ok)

SpecNotify == InitNotify /\ [][NextNotify]_vars

(***************************************************************************)
(* Properties                                                              *)
(***************************************************************************)
\* The step is a run of _apply_update: the only step that takes a callback from
\* the idle queue.
ApplyStep == idle_queue # << >> /\ idle_queue' = Tail(idle_queue)

NotesOfKind(seq, kind) == {i \in DOMAIN seq : seq[i].kind = kind}

\* C1 as stated: no notification of any kind is shown during the first poll
\* after startup, whatever its fetch does.
C1_NoNotificationInFirstPoll ==
    \A i \in DOMAIN notes : notes[i].poll # 1

\* C1 amended: during the first poll no overall-status and no production-event
\* notification is shown; the one notification the first poll can show is the
\* fetch-failure notification of a fetch that raised.
C1_FirstPollShowsOnlyFetchFailure ==
    \A i \in DOMAIN notes :
        notes[i].poll = 1 => notes[i].kind = "fetch_failed" /\ calls.outcome = "raise"

\* The first poll fetched production deployments and was applied: their
\* statuses are recorded and nothing was shown.
C1_Witness ==
    /\ applied.poll = 1
    /\ first_success = 1
    /\ poll_count = 1
    /\ _prod_seen_bootstrapped
    /\ DOMAIN _prod_seen = {"d1", "d2"}
    /\ notes = << >>

ProductionTargets == {"production", "Production", "PRODUCTION"}

\* The status on record for deployments[i].id when _notify_production_events
\* comes to deployments[i]: that of the last production entry of the same id
\* before it in this poll, else the one recorded before the poll (None: none).
RecordedFor(seen, deployments, i) ==
    LET earlier == {j \in 1..(i - 1) : /\ deployments[j].id = deployments[i].id
                                       /\ deployments[j].target \in ProductionTargets}
    IN IF earlier # {}
       THEN deployments[CHOOSE j \in earlier : \A k \in earlier : k <= j].status
       ELSE IF deployments[i].id \in DOMAIN seen THEN seen[deployments[i].id] ELSE None

\* C3: after bootstrap and with production notifications enabled, every applied
\* poll sends exactly one production notification for each deployment that
\* targets production and has no recorded status or a recorded status other
\* than its own, and none for any other deployment.
C3_ProdNoteIffNewOrChanged ==
    [][(ApplyStep /\ _prod_seen_bootstrapped /\ notify_prod_events) =>
         LET deployments == Head(idle_queue).deployments
         IN \A i \in DOMAIN deployments :
              Cardinality({k \in NotesOfKind(notes', "prod") : notes'[k].idx = i})
                = IF /\ deployments[i].target \in ProductionTargets
                     /\ RecordedFor(_prod_seen, deployments, i) # deployments[i].status
                  THEN 1 ELSE 0]_vars

\* C5: at most one fetch worker is in flight (running, or with its result still
\* waiting for _apply_update), and _refresh_in_progress is true exactly while one
\* is.
C5_OneWorkerAndFlagExact ==
    /\ Cardinality(threads) + Len(idle_queue) <= 1
    /\ _refresh_in_progress <=> (threads # {} \/ idle_queue # << >>)

\* C9: when a candidate endpoint answers 401, list_deployments ends by raising
\* PermissionError.
C9_401RaisesPermissionError ==
    (\E i \in DOMAIN calls.answers : calls.answers[i].kind = "401")
        => calls.outcome = "raise" /\ calls.exc = "PermissionError"

\* C10: an applied poll shows the overall-status notification if and only if a
\* previous poll has been applied and its overall status differs from this
\* poll's, and it leaves this poll's overall status in _last_overall_status.
C10_OverallNoteIffChanged ==
    [][ApplyStep =>
         /\ (NotesOfKind(notes', "overall") # {})
              <=> (applied.poll > 0 /\ applied.overall # applied'.overall)
         /\ _last_overall_status' = applied'.overall]_vars

\* The upstream states _parse_deployment recognises, in lower case.
RecognisedStates ==
    {"ready", "building", "queued", "initializing", "error", "failed", "canceled",
     "cancelled"}

\* The upstream value the status is taken from: readyState, else state, else "".
UpstreamState(item) ==
    IF item.readyState \notin {None, ""} THEN item.readyState
    ELSE IF item.state \notin {None, ""} THEN item.state
    ELSE ""

C6_OneTimerArmed ==
    /\ [](/\ Cardinality(timers) <= 1
          /\ \A t \in timers : t.id = _refresh_timer_id /\ t.interval = refresh_interval
          /\ _refresh_timer_id # NoTimer => \E t \in timers : t.id = _refresh_timer_id
          /\ next_source_id > 1 => Cardinality(timers) = 1)
    /\ [][next_source_id' # next_source_id =>
            timers' = {[id |-> next_source_id, interval |-> refresh_interval']}]_vars

\* Saving preferences with another interval replaced the timer armed at startup.
C6_Witness ==
    /\ next_source_id = 3
    /\ timers = {[id |-> 2, interval |-> 10]}
    /\ _refresh_timer_id = 2

\* C7: one call of list_deployments requests the candidates in the order v13,
\* v6, each at most once, goes on to the next only after a failure and stops at
\* the first that succeeds; a worker starts only in a timer tick, a manual
\* refresh or a preferences save, never as the sequel of a failed poll.
C7_NoRetry ==
    /\ [](/\ \E n \in 0..Len(base_url_candidates) :
                calls.requests = SubSeq(base_url_candidates, 1, n)
          /\ \A i \in DOMAIN calls.answers :
                i < Len(calls.answers) => calls.answers[i].result # "ok"
          /\ (calls.outcome # "none" /\ Len(calls.requests) < Len(base_url_candidates))
                => calls.answers[Len(calls.answers)].result = "ok")
    /\ [][poll_count' # poll_count =>
            (TimerTick \/ ManualRefresh \/ \E data \in Dialogs : PrefsSaved(data))]_vars

\* A poll failed on both candidates, one request each.
C7_Witness ==
    /\ calls.requests = << "v13", "v6" >>
    /\ calls.outcome = "raise"
    /\ idle_queue # << >>
    /\ Head(idle_queue).deployments = << >>

\* C8: load_config returns a mapping with all five keys: the defaults when the
\* file is absent or cannot be parsed; for a file holding an object, the stored
\* value of every key of the file and the default of every other key.
C8_LoadConfigDefaults ==
    LET defaults == [token |-> JStr(""), team_id |-> JStr(""),
                     refresh_interval |-> JInt(30), max_items |-> JInt(10),
                     notify_prod_events |-> JBool(TRUE)]
    IN loaded # NotLoaded =>
        /\ ConfigKeys \subseteq DOMAIN loaded
        /\ configFile.kind \in {"absent", "corrupt"} => loaded = defaults
        /\ configFile.kind = "object" =>
              /\ \A k \in DOMAIN configFile.data : loaded[k] = configFile.data[k]
              /\ \A k \in ConfigKeys \ DOMAIN configFile.data : loaded[k] = defaults[k]

\* A file holding two of the keys was loaded: both kept, the others defaulted.
C8_Witness ==
    /\ loaded # NotLoaded
    /\ configFile.kind = "object"
    /\ DOMAIN configFile.data = {"token", "refresh_interval"}
    /\ loaded["token"] = JStr("tokA")
    /\ loaded["refresh_interval"] = JInt(5)
    /\ loaded["max_items"] = JInt(10)

\* C11: immediately after _on_prefs_saved, whatever the state of an earlier
\* poll, a fetch that uses the newly saved token, team and max_items is in
\* flight (a thread that has not read them yet, or one that fetches with them)
\* and the one armed timer has the newly saved refresh_interval.
C11_PrefsSavedStartsFetchWithNewSettings ==
    [][(\E data \in Dialogs : PrefsSaved(data)) =>
          /\ \E t \in threads' :
                \/ t.pc = "spawned"
                \/ t.pc = "fetching" /\ t.client = client' /\ t.limit = max_items'
          /\ _refresh_timer_id' # NoTimer
          /\ timers' = {[id |-> _refresh_timer_id', interval |-> refresh_interval']}]_vars

\* C12: whenever _refresh_in_progress is true, it is eventually reset to false.
C12_StartedRefreshCompletes ==
    _refresh_in_progress ~> ~_refresh_in_progress

====
